---- MODULE Spec2Model ----
(***************************************************************************)
(* Model of the welcome-email delivery pipeline of                         *)
(* moura95/backend-challenge: the Email entity, the SQL-backed email       *)
(* repository, the welcome-email use case with its publisher, the queue    *)
(* consumer and the periodic sweep over pending emails.                    *)
(*                                                                         *)
(* Strings that the code inspects character by character (the address      *)
(* checked by the validator's regular expression) are sequences of         *)
(* one-character strings.  uuid.New() and uuid_generate_v4() return a uuid *)
(* that differs from every uuid generated before.  Every read              *)
(* of the wall clock (time.Now(), NOW()) returns an instant later than     *)
(* every instant recorded in the store.                                    *)
(***************************************************************************)
EXTENDS Integers, Sequences, FiniteSets, TLC

VARIABLES
    emails,     \* table emails: uuid -> row (sqlc.Email)
    queue,      \* broker queue email_notifications: Seq(QueueMessage)
    publisher,  \* "nil" | "set": the email.Publisher the use case was built with
    sweepPc,    \* "sleep" | "loop": position of the sweep goroutine
    batch,      \* the pendingEmails slice ProcessPendingEmails ranges over
    lastFlow,   \* outcome of the latest SendWelcomeEmailUseCase.Execute
    last,       \* the latest call of ProcessEmailQueueUseCase.Execute
    failRun,    \* per EmailID: calls made on it since it was fresh, while
                \* the sender failed every time (NoRun once that ended)
    delivered,  \* number of deliveries handed to the handler from outside
    requeues,   \* times the delivery at the head of the queue was requeued
    worker,     \* the delivery the consumer goroutine is handling: what
                \* Execute has loaded and not yet sent
    faults,     \* number of store faults injected so far
    sweepRun,   \* the latest call of ProcessPendingEmails that was followed
                \* from its fetch to its return
    ent,        \* an Email entity in the hands of a caller of the domain and
                \* the repository: the entity, the MarkAsFailed calls made on
                \* it, what Create left of it, what GetByID returned and
                \* the entity last written with Update
    twin,       \* two calls of Execute made from one store state with two
                \* messages of one EmailID: the messages and both outcomes
    invoked,    \* for each email, the calls of the sender made for it
    proc        \* the process: what main did with the broker connection, and
                \* its consumer and sweep goroutines

vars == <<emails, queue, publisher, sweepPc, batch,
          lastFlow, last, failRun, delivered, requeues, worker, faults, sweepRun, ent, twin, invoked,
          proc>>

----------------------------------------------------------------------------
(* Bounds of the model *)

MaxEmails == 1

MaxDeliveries == 2

MaxFaults == 1

(* the most MarkAsFailed calls made on one entity *)
MaxMarks == 4

(* the most deliveries naming stored emails that the consumer handles while
   the sender's calls are counted *)
MaxRedeliveries == 4

(* the most Update calls one caller makes on its entity *)
MaxUpdates == 2

(* the most emails the store holds when ProcessPendingEmails is called on
   its own, and the largest batchSize it is called with *)
MaxPending == 3

(* a delivery requeued more often than this is not taken again *)
MaxRequeues == 4

(* uuids generated by one welcome-email flow: by the INSERT, by the
   publisher and by NewWelcomeEmail *)
MaxUuid == 3 * MaxEmails

(* a uuid that no row carries *)
UnknownID == 0

(* F applied to the value of v: v is evaluated once, as a local variable of
   the code is *)
With(v, F(_)) == CHOOSE r \in {F(x) : x \in {v}} : TRUE

----------------------------------------------------------------------------
(* internal/domain/email/email.go *)

EmailTypeWelcome == "welcome"

StatusPending == "pending"

StatusSent == "sent"

StatusFailed == "failed"

DefaultMaxAttempts == 3

WelcomeSubject == "Welcome to Backend Challenge!"

(* characters of the model alphabet, by the classes of the validator's
   regular expression *)
AlphaChars == {"a", "b", "c", "o"}

LocalChars == AlphaChars \cup {".", "_", "%", "+", "-"}

DomainChars == AlphaChars \cup {".", "-"}

(* ^[a-zA-Z0-9._%+-]+@[a-zA-Z0-9.-]+\.[a-zA-Z]{2,}$ *)
MatchEmailRegex(s) ==
    \E i \in 2..Len(s) : \E j \in (i + 2)..Len(s) :
        /\ s[i] = "@"
        /\ \A k \in 1..(i - 1) : s[k] \in LocalChars
        /\ s[j] = "."
        /\ \A k \in (i + 1)..(j - 1) : s[k] \in DomainChars
        /\ Len(s) - j >= 2
        /\ \A k \in (j + 1)..Len(s) : s[k] \in AlphaChars

(* a validator that accepts every address *)
ValidateEmail_AcceptsAll(s) == ""

ValidateEmail(s) ==
    IF s = <<>> THEN "email is required"
    ELSE IF ~MatchEmailRegex(s) THEN "invalid email format"
    ELSE ""

ValidateWelcomeEmailData(data) ==
    IF data.UserID = "" THEN "user ID is required"
    ELSE IF data.UserName = "" THEN "user name is required"
    ELSE IF ValidateEmail(data.UserEmail) # "" THEN "user email validation failed"
    ELSE ""

ValidateEmailEntity(e) ==
    IF ValidateEmail(e.To) # "" THEN ValidateEmail(e.To)
    ELSE IF e.Subject = "" THEN "email subject is required"
    ELSE IF e.Body = <<>> THEN "email body is required"
    ELSE IF e.Type # EmailTypeWelcome THEN "invalid email type"
    ELSE IF e.MaxAttempts <= 0 \/ e.MaxAttempts > 10
         THEN "max attempts must be between 1 and 10"
    ELSE ""

generateWelcomeEmailBody(userName) == <<"<h1>Welcome to Backend Challenge, ", userName, "!</h1>">>

(* the zero value of Email, returned where the code returns nil *)
NilEmail ==
    [ID |-> UnknownID, To |-> <<>>, Subject |-> "", Body |-> <<>>, Type |-> "",
     Status |-> "", Attempts |-> 0, MaxAttempts |-> 0, CreatedAt |-> 0,
     SentAt |-> 0, ErrorMsg |-> ""]

(* id: the value of uuid.New(); now: the value of time.Now() *)
NewWelcomeEmail(data, id, now) ==
    LET email == [ID |-> id, To |-> data.UserEmail, Subject |-> WelcomeSubject,
                  Body |-> generateWelcomeEmailBody(data.UserName),
                  Type |-> EmailTypeWelcome, Status |-> StatusPending,
                  Attempts |-> 0, MaxAttempts |-> DefaultMaxAttempts,
                  CreatedAt |-> now, SentAt |-> 0, ErrorMsg |-> ""]
    IN  IF ValidateWelcomeEmailData(data) # ""
        THEN [email |-> NilEmail, err |-> ValidateWelcomeEmailData(data)]
        ELSE IF ValidateEmailEntity(email) # ""
        THEN [email |-> NilEmail, err |-> ValidateEmailEntity(email)]
        ELSE [email |-> email, err |-> ""]

(* MarkAsSent that leaves SentAt as it is *)
MarkAsSent_NoSentAt(e, now) == [e EXCEPT !.Status = StatusSent]

MarkAsSent(e, now) == [e EXCEPT !.Status = StatusSent, !.SentAt = now]

(* MarkAsFailed that switches to failed one failure late *)
MarkAsFailed_FailsAfterMax(e, errorMsg) ==
    LET n == e.Attempts + 1
    IN  [e EXCEPT !.Attempts = n, !.ErrorMsg = errorMsg,
                  !.Status = IF n > e.MaxAttempts THEN StatusFailed ELSE StatusPending]

(* MarkAsFailed that gives up at the first failure *)
MarkAsFailed_FailsAtOnce(e, errorMsg) ==
    [e EXCEPT !.Attempts = @ + 1, !.ErrorMsg = errorMsg, !.Status = StatusFailed]

(* MarkAsFailed without the switch to failed at max_attempts *)
MarkAsFailed_StaysPending(e, errorMsg) ==
    [e EXCEPT !.Attempts = @ + 1, !.ErrorMsg = errorMsg, !.Status = StatusPending]

MarkAsFailed(e, errorMsg) ==
    LET n == e.Attempts + 1
    IN  [e EXCEPT !.Attempts = n, !.ErrorMsg = errorMsg,
                  !.Status = IF n >= e.MaxAttempts THEN StatusFailed ELSE StatusPending]

CanRetry(e) == e.Status = StatusPending /\ e.Attempts < e.MaxAttempts

----------------------------------------------------------------------------
(* internal/infra/repository: sqlc queries and the adapter *)

(* sql.NullString / sql.NullTime / sql.NullInt32 *)
NullString == [Valid |-> FALSE, V |-> ""]

NullTime == [Valid |-> FALSE, V |-> 0]

NotNull(v) == [Valid |-> TRUE, V |-> v]

Coalesce(arg, column) == IF arg.Valid THEN arg.V ELSE column

(* COALESCE over a nullable column: the result is nullable too *)
CoalesceNull(arg, column) == IF arg.Valid THEN arg ELSE column

(* INSERT INTO emails ... RETURNING *: the row the insert creates *)
CreateEmail(params, id, now) ==
    [Uuid |-> id, ToEmail |-> params.ToEmail, Subject |-> params.Subject,
     Body |-> params.Body, Type |-> params.Type, Status |-> params.Status,
     Attempts |-> params.Attempts, MaxAttempts |-> params.MaxAttempts,
     ErrorMsg |-> NullString, SentAt |-> NullTime, CreatedAt |-> now, UpdatedAt |-> now]

(* UPDATE emails SET ... WHERE uuid = $1 *)
UpdateEmail(store, params, now) ==
    IF params.Uuid \in DOMAIN store
    THEN [store EXCEPT ![params.Uuid] =
            [@ EXCEPT !.Status = Coalesce(params.Status, @),
                      !.Attempts = Coalesce(params.Attempts, @),
                      !.ErrorMsg = CoalesceNull(params.ErrorMsg, @),
                      !.SentAt = CoalesceNull(params.SentAt, @),
                      !.UpdatedAt = now]]
    ELSE store

(* a conversion that forgets the recipient *)
sqlcEmailToDomain_NoTo(row) ==
    [ID |-> row.Uuid, To |-> <<>>, Subject |-> row.Subject,
     Body |-> row.Body, Type |-> row.Type, Status |-> row.Status,
     Attempts |-> row.Attempts, MaxAttempts |-> row.MaxAttempts,
     CreatedAt |-> row.CreatedAt,
     SentAt |-> IF row.SentAt.Valid THEN row.SentAt.V ELSE 0,
     ErrorMsg |-> IF row.ErrorMsg.Valid THEN row.ErrorMsg.V ELSE ""]

sqlcEmailToDomain(row) ==
    [ID |-> row.Uuid, To |-> row.ToEmail, Subject |-> row.Subject,
     Body |-> row.Body, Type |-> row.Type, Status |-> row.Status,
     Attempts |-> row.Attempts, MaxAttempts |-> row.MaxAttempts,
     CreatedAt |-> row.CreatedAt,
     SentAt |-> IF row.SentAt.Valid THEN row.SentAt.V ELSE 0,
     ErrorMsg |-> IF row.ErrorMsg.Valid THEN row.ErrorMsg.V ELSE ""]

(* emailRepository.Create: dbOk is whether the INSERT succeeds; id and now
   are the uuid and the timestamp the database generates *)
Create(store, e, dbOk, id, now) ==
    IF ~dbOk
    THEN [store |-> store, email |-> e, err |-> "repository: create email failed"]
    ELSE LET row == CreateEmail([ToEmail |-> e.To, Subject |-> e.Subject,
                                 Body |-> e.Body, Type |-> e.Type,
                                 Status |-> e.Status, Attempts |-> e.Attempts,
                                 MaxAttempts |-> e.MaxAttempts], id, now)
         IN  [store |-> [u \in DOMAIN store \cup {id} |->
                            IF u = id THEN row ELSE store[u]],
              email |-> [e EXCEPT !.ID = row.Uuid, !.CreatedAt = row.CreatedAt],
              err |-> ""]

ErrNotFound == "repository: get email by id failed: email not found"

(* GetByID that answers a missing row with the zero Email and no error *)
GetByID_ZeroOnMissing(store, id, dbOk) ==
    IF ~dbOk
    THEN [email |-> NilEmail, err |-> "repository: get email by id failed"]
    ELSE IF id \notin DOMAIN store
    THEN [email |-> NilEmail, err |-> ""]
    ELSE [email |-> sqlcEmailToDomain(store[id]), err |-> ""]

GetByID(store, id, dbOk) ==
    IF ~dbOk
    THEN [email |-> NilEmail, err |-> "repository: get email by id failed"]
    ELSE IF id \notin DOMAIN store
    THEN [email |-> NilEmail, err |-> ErrNotFound]
    ELSE [email |-> sqlcEmailToDomain(store[id]), err |-> ""]

Update(store, e, dbOk, now) ==
    With([Uuid |-> e.ID,
          Status |-> NotNull(e.Status),
          Attempts |-> NotNull(e.Attempts),
          ErrorMsg |-> IF e.ErrorMsg # "" THEN NotNull(e.ErrorMsg) ELSE NullString,
          SentAt |-> IF e.SentAt # 0 THEN NotNull(e.SentAt) ELSE NullTime],
         LAMBDA params :
            IF ~dbOk
            THEN [store |-> store, err |-> "repository: update email failed"]
            ELSE [store |-> UpdateEmail(store, params, now), err |-> ""])

(* the uuids of `ids`, ordered by created_at ascending *)
RECURSIVE OrderByCreatedAt(_, _)
OrderByCreatedAt(store, ids) ==
    IF ids = {} THEN <<>>
    ELSE With(CHOOSE u \in ids :
                \A v \in ids : store[u].CreatedAt <= store[v].CreatedAt,
              LAMBDA first : <<first>> \o OrderByCreatedAt(store, ids \ {first}))

Limit(s, n) == SubSeq(s, 1, IF Len(s) < n THEN Len(s) ELSE n)

(* the query without its WHERE clause *)
GetPendingEmailsQuery_AnyStatus(store, limit) ==
    Limit(OrderByCreatedAt(store, DOMAIN store), limit)

(* SELECT * FROM emails WHERE status = 'pending' ORDER BY created_at ASC LIMIT $1 *)
GetPendingEmailsQuery(store, limit) ==
    Limit(OrderByCreatedAt(store, {u \in DOMAIN store : store[u].Status = "pending"}),
          limit)

(* the limit GetPendingEmails uses when it is given none *)
DefaultLimit == 10

GetPendingEmails(store, limit, dbOk) ==
    With(GetPendingEmailsQuery(store, IF limit <= 0 THEN DefaultLimit ELSE limit),
         LAMBDA rows :
            IF ~dbOk
            THEN [emails |-> <<>>, err |-> "repository: get pending emails failed"]
            ELSE [emails |-> [i \in 1..Len(rows) |-> sqlcEmailToDomain(store[rows[i]])],
                  err |-> ""])

----------------------------------------------------------------------------
(* internal/application/usecases/email/process_email_queue_usecase.go *)

ErrCannotRetry == "usecase: process email queue failed: email cannot be retried"

ErrPermanentlyFailed == "usecase: process email queue failed: email permanently failed"

ErrSendAndUpdate == "usecase: process email queue failed: send error and update failed"

ErrUpdateAfterSend == "usecase: process email queue failed: update after successful send failed"

ErrSendFailed == "email send failed: smtp error"

(* validateEmailForProcessing without the CanRetry check *)
validateEmailForProcessing_NoRetryCheck(e) == ""

validateEmailForProcessing(e) ==
    IF e.Status = StatusSent THEN ""
    ELSE IF ~CanRetry(e) THEN ErrCannotRetry
    ELSE ""

(* sendOk: what emailSender.SendEmail answers for this call *)
attemptEmailSend(e, sendOk) ==
    [email |-> [e EXCEPT !.Attempts = @ + 1],
     err |-> IF sendOk THEN "" ELSE ErrSendFailed]

handleSendFailure(store, e, sendErr, updOk, now) ==
    With(MarkAsFailed(e, sendErr), LAMBDA failed :
    With(Update(store, failed, updOk, now), LAMBDA upd :
        [store |-> upd.store,
         err |-> IF upd.err # "" THEN ErrSendAndUpdate
                 ELSE IF CanRetry(failed) THEN ""
                 ELSE ErrPermanentlyFailed]))

(* markEmailAsSent that drops the error of a failed Update *)
markEmailAsSent_DropsUpdateError(store, e, updOk, now) ==
    With(MarkAsSent(e, now), LAMBDA sent :
    With(Update(store, sent, updOk, now + 1), LAMBDA upd :
        [store |-> upd.store, err |-> ""]))

markEmailAsSent(store, e, updOk, now) ==
    With(MarkAsSent(e, now), LAMBDA sent :
    With(Update(store, sent, updOk, now + 1), LAMBDA upd :
        [store |-> upd.store,
         err |-> IF upd.err # "" THEN ErrUpdateAfterSend ELSE ""]))

(* an Execute that checks the type of the envelope before the lookup *)
ExecuteLoad_ChecksType(store, message, getOk) ==
    IF message.Type # EmailTypeWelcome
    THEN [email |-> NilEmail, err |-> "unsupported message type", dbErr |-> FALSE]
    ELSE With(GetByID(store, message.EmailID, getOk), LAMBDA got :
        IF got.err # ""
        THEN [email |-> NilEmail, err |-> got.err, dbErr |-> ~getOk]
        ELSE [email |-> got.email, err |-> validateEmailForProcessing(got.email),
              dbErr |-> FALSE])

(* Execute up to the send: the record is loaded and validated.  Result: the
   entity loaded, the error Execute returns at this point ("" when it goes
   on to send) and whether the store failed *)
ExecuteLoad(store, message, getOk) ==
    With(GetByID(store, message.EmailID, getOk), LAMBDA got :
        IF got.err # ""
        THEN [email |-> NilEmail, err |-> got.err, dbErr |-> ~getOk]
        ELSE [email |-> got.email, err |-> validateEmailForProcessing(got.email),
              dbErr |-> FALSE])

(* Execute from the send on, with the entity e loaded earlier: the send and
   the Update that follows it *)
ExecuteSend(store, e, sendOk, updOk, now) ==
    With(attemptEmailSend(e, sendOk), LAMBDA try :
    With(IF try.err # ""
         THEN handleSendFailure(store, try.email, try.err, updOk, now)
         ELSE markEmailAsSent(store, try.email, updOk, now),
         LAMBDA res :
            [store |-> res.store, err |-> res.err, sends |-> 1,
             writes |-> IF updOk THEN 1 ELSE 0, dbErr |-> ~updOk]))

(* ProcessEmailQueueUseCase.Execute.  Result: the store after the call, the
   error returned ("" for nil), the number of sender invocations, the number
   of UPDATE statements executed and whether a store operation failed *)
Execute(store, message, getOk, sendOk, updOk, now) ==
    With(ExecuteLoad(store, message, getOk), LAMBDA got :
        IF got.err # ""
        THEN [store |-> store, err |-> got.err, sends |-> 0, writes |-> 0,
              dbErr |-> got.dbErr]
        ELSE ExecuteSend(store, got.email, sendOk, updOk, now))

(* the emails ProcessPendingEmails ranges over; the loop body is SweepStep *)
ProcessPendingEmails(store, batchSize, dbOk) ==
    With(GetPendingEmails(store, batchSize, dbOk), LAMBDA pending :
        IF pending.err # ""
        THEN [err |-> "usecase: process pending emails failed", todo |-> <<>>]
        ELSE [err |-> "",
              todo |-> [i \in 1..Len(pending.emails) |->
                          [Type |-> pending.emails[i].Type,
                           EmailID |-> pending.emails[i].ID]]])

----------------------------------------------------------------------------
(* internal/infra/messaging/rabbitmq/publisher.go *)

ErrNotConnected == "publisher: RabbitMQ connection is not available"

(* Publisher.PublishWelcomeEmail: id is the value of uuid.New() *)
PublishWelcomeEmail(q, data, connected, id) ==
    IF ~connected
    THEN [queue |-> q, err |-> ErrNotConnected, msgID |-> UnknownID]
    ELSE [queue |-> Append(q, [EmailID |-> id, Type |-> EmailTypeWelcome,
                               Data |-> data]),
          err |-> "", msgID |-> id]

----------------------------------------------------------------------------
(* internal/infra/messaging/rabbitmq/email_consumer.go *)

StartEmailConsumer_RequeuesOnSuccess(parseOk, handlerErr) ==
    IF ~parseOk THEN "reject"
    ELSE IF handlerErr # "" THEN "ack"
    ELSE "requeue"

(* Connection.StartEmailConsumer: what the loop answers the broker for one
   delivery.  parseOk: json.Unmarshal succeeded; handlerErr: what the handler
   returned ("" for nil; HandleEmailMessage returns nil exactly when Execute
   does) *)
StartEmailConsumer(parseOk, handlerErr) ==
    IF ~parseOk THEN "reject"
    ELSE IF handlerErr # "" THEN "ack"
    ELSE "ack"

(* the queue once its head delivery got the answer disp: a delivery rejected
   with requeue goes back to the place it had *)
Settle(q, disp) == IF disp = "requeue" THEN q ELSE Tail(q)

(* the variant of Connection.StartEmailConsumer in publisher.go *)
StartEmailConsumerVariant(parseOk, handlerErr) ==
    IF parseOk
    THEN IF handlerErr = "" THEN "ack" ELSE "requeue"
    ELSE "reject"

----------------------------------------------------------------------------
(* internal/infra/messaging/rabbitmq/consumer.go *)

maxRetries == 3

(* the headers of a delivery: the publishers set none, and a delivery
   rejected with requeue comes back with the headers it had *)
NoHeaders == <<>>

validateMessage(msg) ==
    IF msg.Type = "" THEN "message type is required"
    ELSE IF msg.Type # EmailTypeWelcome THEN "unsupported message type"
    ELSE IF msg.Data.UserID = "" THEN "user ID is required for welcome email"
    ELSE IF msg.Data.UserEmail = <<>> THEN "user email is required for welcome email"
    ELSE IF msg.Data.UserName = "" THEN "user name is required for welcome email"
    ELSE ""

getRetryCount(headers) ==
    IF "retry_count" \in DOMAIN headers THEN headers["retry_count"] ELSE 0

handleProcessingError(headers) ==
    IF getRetryCount(headers) >= maxRetries THEN "reject" ELSE "requeue"

(* handleMessage that puts a body it cannot parse back on the queue *)
handleMessage_RequeuesMalformed(parseOk, msg, headers, handlerErr) ==
    IF ~parseOk THEN "requeue"
    ELSE IF validateMessage(msg) # "" THEN "reject"
    ELSE IF handlerErr # "" THEN handleProcessingError(headers)
    ELSE "ack"

(* Consumer.handleMessage: what the consumer answers the broker *)
handleMessage(parseOk, msg, headers, handlerErr) ==
    IF ~parseOk THEN "reject"
    ELSE IF validateMessage(msg) # "" THEN "reject"
    ELSE IF handlerErr # "" THEN handleProcessingError(headers)
    ELSE "ack"

(* the answer of the consumer of the given kind: "connection" for
   Connection.StartEmailConsumer, "variant" for its variant, "consumer" for
   Consumer.handleMessage *)
Answer(kind, msg, headers, handlerErr) ==
    IF kind = "connection" THEN StartEmailConsumer(TRUE, handlerErr)
    ELSE IF kind = "variant" THEN StartEmailConsumerVariant(TRUE, handlerErr)
    ELSE handleMessage(TRUE, msg, headers, handlerErr)

----------------------------------------------------------------------------
(* internal/application/usecases/email/send_welcome_email_usecase.go *)

validateRequest(req) ==
    IF req.UserID = "" THEN "user ID is required"
    ELSE IF req.UserName = "" THEN "user name is required"
    ELSE IF req.UserEmail = <<>> THEN "user email is required"
    ELSE IF ValidateEmail(req.UserEmail) # "" THEN "invalid email format"
    ELSE ""

sendEmailAsynchronously(q, pub, req, connected, id) ==
    IF pub = "nil"
    THEN [queue |-> q, err |-> "email publisher not configured", msgID |-> UnknownID]
    ELSE LET res == PublishWelcomeEmail(q, [UserID |-> req.UserID,
                                            UserName |-> req.UserName,
                                            UserEmail |-> req.UserEmail],
                                        connected, id)
         IN  [queue |-> res.queue,
              err |-> IF res.err # ""
                      THEN "failed to publish welcome email to queue"
                      ELSE "",
              msgID |-> res.msgID]

(* handleDeliveryFailure that leaves the record as it was created *)
handleDeliveryFailure_NoMark(store, e, deliveryErr, updOk, now) == store

handleDeliveryFailure(store, e, deliveryErr, updOk, now) ==
    Update(store, MarkAsFailed(e, deliveryErr), updOk, now).store

(* SendWelcomeEmailUseCase.Execute.  id1, id2, id3: the uuids that
   NewWelcomeEmail, the INSERT and the publisher generate; now: the clock at
   the call.  Result: store and queue after the call, the
   error returned, the id of the Email record created (UnknownID if none),
   the EmailID of the message enqueued (UnknownID if none) and whether a
   store operation failed *)
SendWelcomeEmail(store, q, pub, req, connected, createOk, updOk, id1, id2, id3, now) ==
    LET data == [UserID |-> req.UserID, UserName |-> req.UserName,
                 UserEmail |-> req.UserEmail]
        new == NewWelcomeEmail(data, id1, now)
        created == Create(store, new.email, createOk, id2, now + 1)
        sent == sendEmailAsynchronously(q, pub, req, connected, id3)
    IN  IF validateRequest(req) # ""
        THEN [store |-> store, queue |-> q, err |-> validateRequest(req),
              emailID |-> UnknownID, msgID |-> UnknownID, dbErr |-> FALSE]
        ELSE IF new.err # ""
        THEN [store |-> store, queue |-> q, err |-> new.err,
              emailID |-> UnknownID, msgID |-> UnknownID, dbErr |-> FALSE]
        ELSE IF created.err # ""
        THEN [store |-> store, queue |-> q, err |-> created.err,
              emailID |-> UnknownID, msgID |-> UnknownID, dbErr |-> TRUE]
        ELSE IF sent.err # ""
        THEN [store |-> handleDeliveryFailure(created.store, created.email,
                                              sent.err, updOk, now + 2),
              queue |-> q, err |-> sent.err,
              emailID |-> created.email.ID, msgID |-> UnknownID, dbErr |-> ~updOk]
        ELSE [store |-> created.store, queue |-> sent.queue, err |-> "",
              emailID |-> created.email.ID, msgID |-> sent.msgID, dbErr |-> FALSE]

----------------------------------------------------------------------------
(* internal/application/usecases/auth/signup_usecase.go,
   internal/application/services/auth/auth_service.go *)

NoUser == [ID |-> "", Name |-> "", Email |-> <<>>]

(* SignUpUseCase.Execute up to the token: exists, newUserOk, createOk and
   tokenOk are what userRepo.EmailExists, user.NewUser, userRepo.Create and
   tokenMaker.CreateToken answer.  user.NewUser accepts a name of 2 to 100
   characters and an address matching the same regular expression as the
   email validator's, and gives the user a fresh uuid *)
SignUpUser(req, exists, newUserOk, createOk, tokenOk) ==
    IF exists THEN [user |-> NoUser, token |-> "",
                    err |-> "usecase: signup failed: email already exists"]
    ELSE IF ~newUserOk \/ ValidateEmail(req.Email) # "" \/ req.Name = ""
    THEN [user |-> NoUser, token |-> "", err |-> "usecase: signup failed"]
    ELSE IF ~createOk
    THEN [user |-> NoUser, token |-> "", err |-> "usecase: signup failed"]
    ELSE IF ~tokenOk
    THEN [user |-> NoUser, token |-> "",
          err |-> "usecase: signup failed: token generation error"]
    ELSE [user |-> [ID |-> "u1", Name |-> req.Name, Email |-> req.Email],
          token |-> "token", err |-> ""]

(* orchestrateWelcomeEmail that publishes although the record was not stored *)
orchestrateWelcomeEmail_PublishesUnstored(store, q, pub, user, connected, createOk, id1, id2, id3, now) ==
    LET data == [UserID |-> user.ID, UserName |-> user.Name, UserEmail |-> user.Email]
        new == NewWelcomeEmail(data, id1, now)
        created == Create(store, new.email, createOk, id2, now + 1)
        sent == PublishWelcomeEmail(q, data, connected, id3)
    IN  IF new.err # ""
        THEN [store |-> store, queue |-> q, err |-> "failed to create welcome email",
              emailID |-> UnknownID, msgID |-> UnknownID, dbErr |-> FALSE]
        ELSE IF created.err # ""
        THEN [store |-> store, queue |-> sent.queue,
              err |-> "failed to persist welcome email",
              emailID |-> UnknownID, msgID |-> sent.msgID, dbErr |-> TRUE]
        ELSE IF pub = "nil"
        THEN [store |-> created.store, queue |-> q, err |-> "",
              emailID |-> created.email.ID, msgID |-> UnknownID, dbErr |-> FALSE]
        ELSE IF sent.err # ""
        THEN [store |-> created.store, queue |-> q,
              err |-> "failed to publish welcome email",
              emailID |-> created.email.ID, msgID |-> UnknownID, dbErr |-> FALSE]
        ELSE [store |-> created.store, queue |-> sent.queue, err |-> "",
              emailID |-> created.email.ID, msgID |-> sent.msgID, dbErr |-> FALSE]

(* SignUpUseCase.orchestrateWelcomeEmail.  Result as for SendWelcomeEmail *)
orchestrateWelcomeEmail(store, q, pub, user, connected, createOk, id1, id2, id3, now) ==
    LET data == [UserID |-> user.ID, UserName |-> user.Name, UserEmail |-> user.Email]
        new == NewWelcomeEmail(data, id1, now)
        created == Create(store, new.email, createOk, id2, now + 1)
        sent == PublishWelcomeEmail(q, data, connected, id3)
    IN  IF new.err # ""
        THEN [store |-> store, queue |-> q, err |-> "failed to create welcome email",
              emailID |-> UnknownID, msgID |-> UnknownID, dbErr |-> FALSE]
        ELSE IF created.err # ""
        THEN [store |-> store, queue |-> q, err |-> "failed to persist welcome email",
              emailID |-> UnknownID, msgID |-> UnknownID, dbErr |-> TRUE]
        ELSE IF pub = "nil"
        THEN [store |-> created.store, queue |-> q, err |-> "",
              emailID |-> created.email.ID, msgID |-> UnknownID, dbErr |-> FALSE]
        ELSE IF sent.err # ""
        THEN [store |-> created.store, queue |-> q,
              err |-> "failed to publish welcome email",
              emailID |-> created.email.ID, msgID |-> UnknownID, dbErr |-> FALSE]
        ELSE [store |-> created.store, queue |-> sent.queue, err |-> "",
              emailID |-> created.email.ID, msgID |-> sent.msgID, dbErr |-> FALSE]

(* a sign-up that fails when its welcome-email part fails *)
SignUpResponse_FailsOnEmailError(u, emailErr) ==
    IF emailErr # ""
    THEN [user |-> NoUser, token |-> "", err |-> "signup failed: welcome email"]
    ELSE [user |-> u.user, token |-> u.token, err |-> ""]

(* what a signup returns when the user part answered u and the welcome-email
   part answered emailErr: the error of the email part is logged and dropped *)
SignUpResponse(u, emailErr) == [user |-> u.user, token |-> u.token, err |-> ""]

(* SignUpUseCase.Execute with the welcome-email step.  Result: what Execute
   returns (signup) and what the email step did (flow) *)
SignUpUseCaseExecute(store, q, pub, u, connected, createOk, id1, id2, id3, now) ==
    IF u.err # ""
    THEN [signup |-> u,
          flow |-> [store |-> store, queue |-> q, err |-> "", emailID |-> UnknownID,
                    msgID |-> UnknownID, dbErr |-> FALSE]]
    ELSE With(orchestrateWelcomeEmail(store, q, pub, u.user, connected, createOk,
                                      id1, id2, id3, now),
              LAMBDA flow : [signup |-> SignUpResponse(u, flow.err), flow |-> flow])

(* AuthService.SignUp: the sign-up use case, then SendWelcomeEmailUseCase *)
AuthServiceSignUp(store, q, pub, u, connected, createOk, updOk, id1, id2, id3, now) ==
    IF u.err # ""
    THEN [signup |-> [u EXCEPT !.err = "service: signup failed"],
          flow |-> [store |-> store, queue |-> q, err |-> "", emailID |-> UnknownID,
                    msgID |-> UnknownID, dbErr |-> FALSE]]
    ELSE With(SendWelcomeEmail(store, q, pub,
                               [UserID |-> u.user.ID, UserName |-> u.user.Name,
                                UserEmail |-> u.user.Email],
                               connected, createOk, updOk, id1, id2, id3, now),
              LAMBDA flow : [signup |-> SignUpResponse(u, flow.err), flow |-> flow])

----------------------------------------------------------------------------
(* The state machine *)

(* cmd/main.go: processEmailUC.ProcessPendingEmails(ctx, 50) *)
SweepBatchSize == 50

GoodAddress == <<"a", "@", "b", ".", "c", "o">>

GoodRequest == [UserID |-> "u1", UserName |-> "Ann", UserEmail |-> GoodAddress]

(* the well-formed request and the requests that differ from it in one field *)
Requests ==
    {GoodRequest, [GoodRequest EXCEPT !.UserID = ""],
     [GoodRequest EXCEPT !.UserName = ""]}
    \cup {[GoodRequest EXCEPT !.UserEmail = a] :
            a \in {<<>>, <<"a", "b">>, <<"a", "@", "b", ".", "c">>}}

NoRequest == [UserID |-> "", UserName |-> "", UserEmail |-> <<>>]

(* what a reload of the record by id shows; NoSnap when there is no record *)
NoSnap == [Status |-> "none", Attempts |-> 0, MaxAttempts |-> 0, ErrorMsg |-> "",
           SentAt |-> 0]

(* the fields of an entity that the pipeline changes *)
SnapOf(e) ==
    [Status |-> e.Status, Attempts |-> e.Attempts, MaxAttempts |-> e.MaxAttempts,
     ErrorMsg |-> e.ErrorMsg, SentAt |-> e.SentAt]

Snap(store, id) ==
    IF id \in DOMAIN store THEN SnapOf(sqlcEmailToDomain(store[id])) ELSE NoSnap

NoMessage == [EmailID |-> UnknownID, Type |-> "", Data |-> NoRequest]

(* the consumer goroutine between two deliveries *)
Idle == [src |-> "idle", kind |-> "none", message |-> NoMessage, email |-> NilEmail]

MaxOf(S) == IF S = {} THEN 0 ELSE CHOOSE x \in S : \A y \in S : y <= x

(* the wall clock: later than every instant recorded in the store *)
Now ==
    1 + MaxOf({emails[u].CreatedAt : u \in DOMAIN emails}
              \cup {emails[u].UpdatedAt : u \in DOMAIN emails}
              \cup {emails[u].SentAt.V : u \in DOMAIN emails})

(* the uuid that uuid_generate_v4() returns for the next row *)
DbUuid == Cardinality(DOMAIN emails) + 1

(* the uuids that uuid.New() returns in the flow that inserts the next row:
   in the publisher and in NewWelcomeEmail *)
PublisherUuid == MaxEmails + DbUuid

EntityUuid == 2 * MaxEmails + DbUuid

(* the outcomes a store operation may have in this step *)
Oks(allowFault) == IF allowFault /\ faults < MaxFaults THEN {TRUE, FALSE} ELSE {TRUE}

(* the same for the goroutines main started, whose store requests carry
   main's context: a request with a cancelled context fails *)
CtxOks(allowFault) ==
    IF proc.ctx = "cancelled"
    THEN IF faults < MaxFaults THEN {FALSE} ELSE {}
    ELSE Oks(allowFault)

(* cmd/main.go: main found the broker and started startEmailConsumer, which
   started the sweep goroutine and the consumer loop *)
Started ==
    [rabbitConn |-> "conn", consumer |-> "running", sweep |-> "running",
     ctx |-> "live"]

(* main has not called setupRabbitMQ yet *)
NotStarted ==
    [rabbitConn |-> "unset", consumer |-> "none", sweep |-> "none", ctx |-> "live"]

(* no call of ProcessPendingEmails was followed yet *)
NoBatch ==
    [limit |-> 0, fetchOk |-> TRUE, pending |-> {}, fetched |-> <<>>,
     handed |-> <<>>, fails |-> 0, sendFails |-> 0, storeOk |-> TRUE,
     ret |-> "none"]

(* the outcome of a call of Execute that was not made *)
NoOutcome == [store |-> <<>>, err |-> "not run", sends |-> 0, writes |-> 0, dbErr |-> FALSE]

(* no pair of calls was made *)
NoTwin == [first |-> NoMessage, second |-> NoMessage, a |-> NoOutcome, b |-> NoOutcome]

(* the queue and the goroutines' positions when the process starts *)
InitOther ==
    /\ queue = <<>>
    /\ publisher \in {"nil", "set"}
    /\ sweepPc = "sleep"
    /\ batch = <<>>
    /\ lastFlow = [via |-> "none", req |-> NoRequest, err |-> "not run",
                   emailID |-> UnknownID, msgID |-> UnknownID, post |-> NoSnap,
                   storeOk |-> TRUE, signup |-> "none"]
    /\ last = [id |-> UnknownID, via |-> "none", send |-> "none", storeOk |-> TRUE,
               pre |-> NoSnap, post |-> NoSnap, err |-> "", sends |-> 0,
               writes |-> 0, changed |-> FALSE, disp |-> "none", kind |-> "none"]
    /\ failRun = [id \in 1..MaxUuid |-> 0]
    /\ delivered = 0
    /\ requeues = 0
    /\ worker = Idle
    /\ faults = 0
    /\ sweepRun = NoBatch
    /\ twin = NoTwin
    /\ invoked = [id \in 1..MaxUuid |-> 0]

(* no entity is in the hands of a caller *)
NoEntity ==
    [email |-> NilEmail, marks |-> 0, created |-> NilEmail, loaded |-> NilEmail,
     written |-> NilEmail, updates |-> 0]

(* the store, the queue and the goroutines' positions when the process starts *)
InitStore == emails = <<>> /\ InitOther /\ ent = NoEntity

Init == InitStore /\ proc = Started

(* the store after k of n welcome emails were created one after the other,
   each by NewWelcomeEmail and Create; the uuids the database generates are
   in no order: here the j-th row gets the uuid n + 1 - j *)
RECURSIVE StoredAfter(_, _)
StoredAfter(n, k) ==
    IF k = 0 THEN <<>>
    ELSE With(StoredAfter(n, k - 1), LAMBDA store :
            Create(store,
                   NewWelcomeEmail([UserID |-> "u1", UserName |-> "Ann",
                                    UserEmail |-> GoodAddress],
                                   UnknownID, 2 * k - 1).email,
                   TRUE, n + 1 - k, 2 * k).store)

(* ProcessPendingEmails called on its own, as its tests do, on a store that
   holds some welcome emails *)
InitBatch ==
    /\ \E n \in 0..MaxPending : n <= MaxUuid /\ emails = StoredAfter(n, n)
    /\ InitOther
    /\ ent = NoEntity
    /\ publisher = "set"
    /\ proc = Started

InitMain == InitStore /\ proc = NotStarted

NoRun == 0 - 1

(* failRun after a call on a record: the run goes on while the record was
   fresh at its first call, the store answered and the sender did not succeed *)
NextRun(run, pre, send, storeOk) ==
    IF run = NoRun \/ ~storeOk \/ send = "ok" THEN NoRun
    ELSE IF run = 0 /\ ~(pre.Status = StatusPending /\ pre.Attempts = 0) THEN NoRun
    ELSE run + 1

(* a call of ProcessEmailQueueUseCase.Execute returns: the store it leaves
   and the record of the call in last.  pre: the record as the call loaded
   it; send: what the sender answered; disp: what the broker was answered *)
Return(id, via, pre, res, send, disp, kind) ==
    /\ emails' = res.store
    /\ last' = [id |-> id, via |-> via, send |-> send, storeOk |-> ~res.dbErr,
                pre |-> pre, post |-> Snap(res.store, id),
                err |-> res.err, sends |-> res.sends, writes |-> res.writes,
                changed |-> res.store # emails, disp |-> disp, kind |-> kind]
    /\ failRun' = IF id \in DOMAIN emails
                  THEN [failRun EXCEPT ![id] = NextRun(@, pre, send, ~res.dbErr)]
                  ELSE failRun
    /\ faults' = IF res.dbErr THEN faults + 1 ELSE faults

(* one call of ProcessEmailQueueUseCase.Execute by the sweep *)
RunExecute(message, via, getOk, sendOk, updOk) ==
    \E now \in {Now} :
    \E res \in {Execute(emails, message, getOk, sendOk, updOk, now)} :
        /\ res.sends = 0 => ~sendOk  \* the answer of a sender nobody asks is moot
        /\ Return(message.EmailID, via, Snap(emails, message.EmailID), res,
                  IF res.sends = 0 THEN "none" ELSE IF sendOk THEN "ok" ELSE "fail",
                  "none", "none")

(* the broker gets the answer disp for a delivery: one taken from the queue
   leaves it unless it is requeued *)
Answered(src, disp) ==
    IF src = "queue"
    THEN /\ queue' = Settle(queue, disp)
         /\ requeues' = IF disp = "requeue" THEN requeues + 1 ELSE 0
    ELSE UNCHANGED <<queue, requeues>>

(* a consumer goroutine of the given kind handles one delivery from the
   receive to the answer: the handler's Execute runs as a whole *)
Deliver(message, src, kind, getOk, sendOk, updOk) ==
    \E now \in {Now} :
    \E res \in {Execute(emails, message, getOk, sendOk, updOk, now)} :
    \E disp \in {Answer(kind, message, NoHeaders, res.err)} :
        /\ res.sends = 0 => ~sendOk  \* the answer of a sender nobody asks is moot
        /\ Return(message.EmailID, "consumer", Snap(emails, message.EmailID), res,
                  IF res.sends = 0 THEN "none" ELSE IF sendOk THEN "ok" ELSE "fail",
                  disp, kind)
        /\ Answered(src, disp)

(* the same in two steps, for the runs where another goroutine works on the
   record meanwhile: the goroutine takes a delivery and the handler's Execute
   loads the record.  When Execute returns here the delivery is answered at
   once; otherwise the goroutine goes on to the send with the entity it
   loaded *)
Load(message, src, kind, getOk) ==
    \E got \in {ExecuteLoad(emails, message, getOk)} :
        IF got.err # ""
        THEN \E disp \in {Answer(kind, message, NoHeaders, got.err)} :
                /\ Return(message.EmailID, "consumer", Snap(emails, message.EmailID),
                          [store |-> emails, err |-> got.err, sends |-> 0,
                           writes |-> 0, dbErr |-> got.dbErr], "none", disp, kind)
                /\ Answered(src, disp)
                /\ worker' = Idle
        ELSE /\ worker' = [src |-> src, kind |-> kind, message |-> message,
                           email |-> got.email]
             /\ UNCHANGED <<emails, queue, requeues, last, failRun, faults>>

(* a welcome-email flow returns: the store and the queue it leaves and the
   record of the flow in lastFlow.  signup: "ok" when the sign-up that ran
   the flow returned the user and the token, "failed" when it returned an
   error, "none" when no sign-up ran it *)
FlowReturn(via, req, res, signup) ==
    /\ emails' = res.store
    /\ queue' = res.queue
    /\ lastFlow' = [via |-> via, req |-> req, err |-> res.err,
                    emailID |-> res.emailID, msgID |-> res.msgID,
                    post |-> Snap(res.store, res.emailID),
                    storeOk |-> ~res.dbErr, signup |-> signup]
    /\ faults' = IF res.dbErr THEN faults + 1 ELSE faults

(* a welcome-email request served by SendWelcomeEmailUseCase.Execute *)
SendWelcome(allowFault) ==
    /\ Cardinality(DOMAIN emails) < MaxEmails
    /\ \E req \in Requests, connected \in BOOLEAN,
          createOk \in Oks(allowFault), updOk \in Oks(allowFault) :
          FlowReturn("usecase", req,
                     SendWelcomeEmail(emails, queue, publisher, req, connected,
                                      createOk, updOk, EntityUuid, DbUuid,
                                      PublisherUuid, Now),
                     "none")
    /\ UNCHANGED <<proc, twin, invoked, sweepRun, ent, publisher, sweepPc, batch, last, failRun, delivered, requeues,
                   worker>>

SignUpRequests ==
    {[Name |-> "Ann", Email |-> GoodAddress], [Name |-> "Ann", Email |-> <<"a", "b">>]}

(* the answers of the user repository, user.NewUser and the token maker: one
   run where all succeed, and one for each that fails *)
UserAnswers ==
    {<<FALSE, TRUE, TRUE, TRUE>>, <<TRUE, TRUE, TRUE, TRUE>>,
     <<FALSE, FALSE, TRUE, TRUE>>, <<FALSE, TRUE, FALSE, TRUE>>,
     <<FALSE, TRUE, TRUE, FALSE>>}

SignUpOutcome(signup) ==
    IF signup.err = "" /\ signup.user # NoUser /\ signup.token # "" THEN "ok"
    ELSE "failed"

WelcomeRequestOf(user) ==
    [UserID |-> user.ID, UserName |-> user.Name, UserEmail |-> user.Email]

(* a sign-up served by AuthService.SignUp *)
SignUp(allowFault) ==
    /\ Cardinality(DOMAIN emails) < MaxEmails
    /\ \E req \in SignUpRequests, a \in UserAnswers, connected \in BOOLEAN,
          createOk \in Oks(allowFault), updOk \in Oks(allowFault) :
       \E res \in {AuthServiceSignUp(emails, queue, publisher,
                                     SignUpUser(req, a[1], a[2], a[3], a[4]),
                                     connected, createOk, updOk, EntityUuid,
                                     DbUuid, PublisherUuid, Now)} :
          FlowReturn("service", WelcomeRequestOf(res.signup.user), res.flow,
                     SignUpOutcome(res.signup))
    /\ UNCHANGED <<proc, twin, invoked, sweepRun, ent, publisher, sweepPc, batch, last, failRun, delivered, requeues,
                   worker>>

(* a sign-up served by SignUpUseCase.Execute with its own welcome-email step *)
SignUpWithEmail(allowFault) ==
    /\ Cardinality(DOMAIN emails) < MaxEmails
    /\ \E req \in SignUpRequests, a \in UserAnswers, connected \in BOOLEAN,
          createOk \in Oks(allowFault) :
       \E res \in {SignUpUseCaseExecute(emails, queue, publisher,
                                        SignUpUser(req, a[1], a[2], a[3], a[4]),
                                        connected, createOk, EntityUuid,
                                        DbUuid, PublisherUuid, Now)} :
          FlowReturn("signup", WelcomeRequestOf(res.signup.user), res.flow,
                     SignUpOutcome(res.signup))
    /\ UNCHANGED <<proc, twin, invoked, sweepRun, ent, publisher, sweepPc, batch, last, failRun, delivered, requeues,
                   worker>>

(* a delivery that this process did not publish, naming any EmailID: the
   durable queue may hold such messages *)
Foreign(id) ==
    [EmailID |-> id, Type |-> EmailTypeWelcome,
     Data |-> [UserID |-> "u1", UserName |-> "Ann", UserEmail |-> GoodAddress]]

(* HandleEmailMessage for a delivery whose body names any EmailID *)
HandleEmailMessage(allowFault) ==
    /\ proc.consumer = "running"
    /\ worker = Idle
    /\ delivered < MaxDeliveries
    /\ \E id \in DOMAIN emails \cup {UnknownID}, getOk \in CtxOks(allowFault),
          sendOk \in BOOLEAN, updOk \in CtxOks(allowFault) :
          Deliver(Foreign(id), "external", "connection", getOk, sendOk, updOk)
    /\ delivered' = delivered + 1
    /\ UNCHANGED <<proc, twin, invoked, sweepRun, ent, publisher, sweepPc, batch, lastFlow, worker>>

(* publishToEmailQueue puts a message on the durable queue whatever EmailID
   its body names: that of a stored record or of none *)
PublishToEmailQueue ==
    /\ delivered < MaxDeliveries
    /\ \E id \in DOMAIN emails \cup {UnknownID} : queue' = Append(queue, Foreign(id))
    /\ delivered' = delivered + 1
    /\ UNCHANGED <<proc, twin, invoked, sweepRun, ent, emails, publisher, sweepPc, batch, lastFlow, last, failRun,
                   requeues, worker, faults>>

(* a delivery body that is not the JSON of a QueueMessage; the other bodies
   are held on the queue as the message they decode to *)
MalformedBody == [EmailID |-> UnknownID, Type |-> "not json", Data |-> NoRequest]

ErrUnmarshal == "Failed to unmarshal message"

(* json.Unmarshal of a delivery body into a QueueMessage *)
Unmarshal(body) ==
    IF body = MalformedBody
    THEN [msg |-> NoMessage, err |-> ErrUnmarshal]
    ELSE [msg |-> body, err |-> ""]

(* a consumer of the given kind answers a delivery whose body it could not
   parse: the handler is not called *)
Unparsed(kind) ==
    \E disp \in {IF kind = "connection" THEN StartEmailConsumer(FALSE, "")
                 ELSE IF kind = "variant" THEN StartEmailConsumerVariant(FALSE, "")
                 ELSE handleMessage(FALSE, NoMessage, NoHeaders, "")} :
        /\ last' = [id |-> UnknownID, via |-> "consumer", send |-> "none",
                    storeOk |-> TRUE, pre |-> NoSnap, post |-> NoSnap,
                    err |-> ErrUnmarshal, sends |-> 0, writes |-> 0,
                    changed |-> FALSE, disp |-> disp, kind |-> kind]
        /\ Answered("queue", disp)
        /\ UNCHANGED <<emails, failRun, faults>>

(* something puts a body that is not JSON on the durable queue *)
PublishMalformed ==
    /\ delivered < MaxDeliveries
    /\ queue' = Append(queue, MalformedBody)
    /\ delivered' = delivered + 1
    /\ UNCHANGED <<proc, twin, invoked, sweepRun, ent, emails, publisher, sweepPc,
                   batch, lastFlow, last, failRun, requeues, worker, faults>>

(* a consumer of the given kind takes the delivery at the head of the queue,
   parses its body and handles it *)
Take(kind, allowFault) ==
    /\ proc.consumer = "running"
    /\ worker = Idle
    /\ queue # <<>>
    /\ requeues <= MaxRequeues
    /\ IF Unmarshal(Head(queue)).err # ""
       THEN Unparsed(kind)
       ELSE \E getOk \in CtxOks(allowFault), sendOk \in BOOLEAN,
               updOk \in CtxOks(allowFault) :
               Deliver(Unmarshal(Head(queue)).msg, "queue", kind, getOk, sendOk, updOk)
    /\ UNCHANGED <<proc, twin, invoked, sweepRun, ent, publisher, sweepPc, batch, lastFlow, delivered, worker>>

(* StartEmailConsumer takes the next delivery of the queue and hands it to
   HandleEmailMessage *)
Consume(allowFault) == Take("connection", allowFault)

(* Consumer.processMessages takes a delivery for Consumer.handleMessage *)
ConsumerProcessMessages(allowFault) == Take("consumer", allowFault)

(* the variant of StartEmailConsumer takes a delivery *)
ConsumeVariant(allowFault) == Take("variant", allowFault)

(* HandleEmailMessage up to the send: Execute loads the record the delivery
   names *)
HandlerLoads(allowFault) ==
    /\ proc.consumer = "running"
    /\ worker = Idle
    /\ delivered < MaxDeliveries
    /\ \E id \in DOMAIN emails \cup {UnknownID}, getOk \in Oks(allowFault) :
          Load(Foreign(id), "external", "connection", getOk)
    /\ delivered' = delivered + 1
    /\ UNCHANGED <<proc, twin, invoked, sweepRun, ent, publisher, sweepPc, batch, lastFlow>>

(* HandleEmailMessage from the send on: Execute sends the email it loaded and
   updates the record; the consumer answers the broker *)
FinishDelivery(allowFault) ==
    /\ worker # Idle
    /\ \E sendOk \in BOOLEAN, updOk \in Oks(allowFault) :
       \E now \in {Now} :
       \E res \in {ExecuteSend(emails, worker.email, sendOk, updOk, now)} :
       \E disp \in {Answer(worker.kind, worker.message, NoHeaders, res.err)} :
          /\ Return(worker.message.EmailID, "consumer", SnapOf(worker.email), res,
                    IF sendOk THEN "ok" ELSE "fail", disp, worker.kind)
          /\ Answered(worker.src, disp)
    /\ worker' = Idle
    /\ UNCHANGED <<proc, twin, invoked, sweepRun, ent, publisher, sweepPc, batch, lastFlow, delivered>>

(* ProcessPendingEmails up to its loop: the batch is fetched.  limit: the
   batchSize of the call; dbOk: the store answers the query *)
BatchFetch(limit, dbOk) ==
    \E res \in {ProcessPendingEmails(emails, limit, dbOk)} :
        /\ batch' = res.todo
        /\ sweepPc' = IF res.todo = <<>> THEN "sleep" ELSE "loop"
        /\ faults' = IF dbOk THEN faults ELSE faults + 1

(* a loop that returns the first error it meets *)
ProcessPendingEmailsLoop_StopsOnFailure(rest, err) ==
    IF err # ""
    THEN [todo |-> <<>>, ret |-> err]
    ELSE [todo |-> rest, ret |-> IF rest = <<>> THEN "" ELSE "running"]

(* ProcessPendingEmails after one Execute call of its loop returned err: a
   failure is counted and logged, the loop goes on with the rest of the
   batch and the call returns nil at the end of it *)
ProcessPendingEmailsLoop(rest, err) ==
    [todo |-> rest, ret |-> IF rest = <<>> THEN "" ELSE "running"]

(* one iteration of the loop of ProcessPendingEmails *)
BatchStep(getOk, sendOk, updOk) ==
    /\ RunExecute(Head(batch), "sweep", getOk, sendOk, updOk)
    /\ \E nxt \in {ProcessPendingEmailsLoop(Tail(batch), last'.err)} :
          /\ batch' = nxt.todo
          /\ sweepPc' = IF nxt.todo = <<>> THEN "sleep" ELSE "loop"

(* the values of batchSize ProcessPendingEmails is called with *)
Limits == 0..MaxPending

(* a call of ProcessPendingEmails with any batchSize fetches its batch *)
ProcessPendingEmailsCall(allowFault) ==
    /\ sweepPc = "sleep"
    /\ \E limit \in Limits, dbOk \in Oks(allowFault) :
          /\ BatchFetch(limit, dbOk)
          /\ \E res \in {ProcessPendingEmails(emails, limit, dbOk)} :
                sweepRun' =
                    [limit |-> limit, fetchOk |-> dbOk,
                     pending |-> {u \in DOMAIN emails :
                                    emails[u].Status = StatusPending},
                     fetched |-> [i \in 1..Len(res.todo) |-> res.todo[i].EmailID],
                     handed |-> <<>>, fails |-> 0, sendFails |-> 0,
                     storeOk |-> dbOk,
                     ret |-> IF res.err # "" THEN res.err
                             ELSE IF res.todo = <<>> THEN "" ELSE "running"]
    /\ UNCHANGED <<proc, twin, invoked, ent, emails, queue, publisher, lastFlow, last,
                   failRun, delivered, requeues, worker>>

(* one iteration of the loop of that call *)
ProcessPendingEmailsIteration(allowFault) ==
    /\ sweepPc = "loop"
    /\ \E getOk \in Oks(allowFault), sendOk \in BOOLEAN, updOk \in Oks(allowFault) :
          BatchStep(getOk, sendOk, updOk)
    /\ sweepRun' =
          [sweepRun EXCEPT
             !.handed = Append(@, Head(batch).EmailID),
             !.fails = IF last'.err # "" THEN @ + 1 ELSE @,
             !.sendFails = IF last'.send = "ok" THEN @ ELSE @ + 1,
             !.storeOk = @ /\ last'.storeOk,
             !.ret = ProcessPendingEmailsLoop(Tail(batch), last'.err).ret]
    /\ UNCHANGED <<proc, twin, invoked, ent, queue, publisher, lastFlow, delivered, requeues,
                   worker>>

(* the sweep goroutine wakes up and ProcessPendingEmails fetches its batch *)
SweepFetch(allowFault) ==
    /\ proc.sweep = "running"
    /\ sweepPc = "sleep"
    /\ \E dbOk \in CtxOks(allowFault) : BatchFetch(SweepBatchSize, dbOk)
    /\ UNCHANGED <<proc, twin, invoked, sweepRun, ent, emails, queue, publisher, lastFlow, last,
                   failRun, delivered, requeues, worker>>

(* one iteration of the loop of ProcessPendingEmails in the sweep goroutine *)
SweepStep(allowFault) ==
    /\ proc.sweep = "running"
    /\ sweepPc = "loop"
    /\ \E getOk \in CtxOks(allowFault), sendOk \in BOOLEAN,
          updOk \in CtxOks(allowFault) :
          BatchStep(getOk, sendOk, updOk)
    /\ UNCHANGED <<proc, twin, invoked, sweepRun, ent, queue, publisher, lastFlow, delivered, requeues,
                   worker>>

(* main: setupRabbitMQ returns the connection or nil, and only with a
   connection main starts startEmailConsumer, which starts the sweep
   goroutine and then the consumer loop.  connOk: the broker was reachable *)
main(connOk) ==
    IF connOk
    THEN Started
    ELSE [rabbitConn |-> "nil", consumer |-> "none", sweep |-> "none",
          ctx |-> "live"]

Startup ==
    /\ proc.rabbitConn = "unset"
    /\ \E connOk \in BOOLEAN : proc' = main(connOk)
    /\ UNCHANGED <<emails, queue, publisher, sweepPc, batch, lastFlow, last,
                   failRun, delivered, requeues, worker, faults, sweepRun, ent, twin, invoked>>

(* the consumer loop returns between two deliveries: the context is done or
   the messages channel was closed.  startEmailConsumer logs it and returns;
   the sweep goroutine it started is left alone *)
ConsumerStops ==
    /\ proc.consumer = "running"
    /\ worker = Idle
    /\ proc' = [proc EXCEPT !.consumer = "stopped"]
    /\ UNCHANGED <<emails, queue, publisher, sweepPc, batch, lastFlow, last,
                   failRun, delivered, requeues, worker, faults, sweepRun, ent, twin, invoked>>

(* the welcome data the entities are made of *)
WelcomeData ==
    {[UserID |-> "u1", UserName |-> n, UserEmail |-> a] :
        n \in {"Ann", "Bob"}, a \in {GoodAddress, <<"c", "@", "a", ".", "c", "o">>}}

(* a caller holds an entity made by NewWelcomeEmail; max_attempts is a
   public field and takes the values the validator allows up to the default *)
InitDomain ==
    /\ emails = <<>>
    /\ InitOther
    /\ publisher = "set"
    /\ proc = Started
    /\ \E data \in WelcomeData, m \in 1..DefaultMaxAttempts :
          ent = [NoEntity EXCEPT
                    !.email = [NewWelcomeEmail(data, EntityUuid, Now).email
                                  EXCEPT !.MaxAttempts = m]]

(* the reasons MarkAsFailed is called with *)
Reasons == {ErrSendFailed, "email publisher not configured"}

(* the caller calls MarkAsFailed on its entity *)
CallMarkAsFailed ==
    /\ ent.marks < MaxMarks
    /\ \E reason \in Reasons :
          ent' = [ent EXCEPT !.email = MarkAsFailed(@, reason), !.marks = @ + 1]
    /\ UNCHANGED <<emails, queue, publisher, sweepPc, batch, lastFlow, last,
                   failRun, delivered, requeues, worker, faults, sweepRun, proc, twin, invoked>>

(* the caller persists its entity with emailRepository.Create *)
CallCreate(allowFault) ==
    /\ ent.created = NilEmail
    /\ Cardinality(DOMAIN emails) < MaxEmails
    /\ \E dbOk \in Oks(allowFault) :
       \E res \in {Create(emails, ent.email, dbOk, DbUuid, Now)} :
          /\ emails' = res.store
          /\ ent' = IF res.err # "" THEN ent
                    ELSE [ent EXCEPT !.email = res.email, !.created = res.email]
          /\ faults' = IF dbOk THEN faults ELSE faults + 1
    /\ UNCHANGED <<queue, publisher, sweepPc, batch, lastFlow, last,
                   failRun, delivered, requeues, worker, sweepRun, proc, twin, invoked>>

(* the caller reloads the entity it created with emailRepository.GetByID *)
CallGetByID ==
    /\ ent.created # NilEmail
    /\ ent' = [ent EXCEPT !.loaded = GetByID(emails, ent.created.ID, TRUE).email]
    /\ UNCHANGED <<emails, queue, publisher, sweepPc, batch, lastFlow, last,
                   failRun, delivered, requeues, worker, faults, sweepRun, proc, twin, invoked>>

(* the caller writes one of the copies it holds with emailRepository.Update:
   the entity it created or the one it reloaded *)
CallUpdate(allowFault) ==
    /\ ent.created # NilEmail
    /\ ent.updates < MaxUpdates
    /\ \E e \in {ent.email, ent.loaded} \ {NilEmail}, dbOk \in Oks(allowFault) :
       \E res \in {Update(emails, e, dbOk, Now)} :
          /\ emails' = res.store
          /\ ent' = IF res.err # "" THEN [ent EXCEPT !.updates = @ + 1]
                    ELSE [ent EXCEPT !.written = e, !.updates = @ + 1]
          /\ faults' = IF dbOk THEN faults ELSE faults + 1
    /\ UNCHANGED <<queue, publisher, sweepPc, batch, lastFlow, last,
                   failRun, delivered, requeues, worker, sweepRun, proc, twin, invoked>>

(* the sender's calls for email id after a call of Execute that left last' *)
Invoked(id) == [invoked EXCEPT ![id] = @ + last'.sends]

(* the consumer handles a delivery naming a stored email, the store being
   available *)
Redelivery ==
    /\ proc.consumer = "running"
    /\ worker = Idle
    /\ delivered < MaxRedeliveries
    /\ \E id \in DOMAIN emails, sendOk \in BOOLEAN :
          /\ Deliver(Foreign(id), "external", "connection", TRUE, sendOk, TRUE)
          /\ invoked' = Invoked(id)
    /\ delivered' = delivered + 1
    /\ UNCHANGED <<proc, twin, sweepRun, ent, publisher, sweepPc, batch, lastFlow,
                   worker>>

(* one iteration of the sweep's loop, the store being available *)
SweepIteration ==
    /\ proc.sweep = "running"
    /\ sweepPc = "loop"
    /\ \E sendOk \in BOOLEAN :
          /\ BatchStep(TRUE, sendOk, TRUE)
          /\ invoked' = Invoked(Head(batch).EmailID)
    /\ UNCHANGED <<proc, twin, sweepRun, ent, queue, publisher, lastFlow, delivered,
                   requeues, worker>>

(* the envelopes a delivery body may hold for one EmailID: any type, any data *)
Envelopes(id) ==
    {[EmailID |-> id, Type |-> t, Data |-> d] :
        t \in {EmailTypeWelcome, "", "reset"},
        d \in {GoodRequest, NoRequest}}

(* Execute is called for two messages of one EmailID from the same store and
   with the same answers of the store and the sender; the store goes on from
   the first call *)
ProcessMessageTwice(allowFault) ==
    /\ delivered < MaxDeliveries
    /\ \E id \in DOMAIN emails \cup {UnknownID} :
       \E first \in Envelopes(id), second \in Envelopes(id),
          getOk \in Oks(allowFault), sendOk \in BOOLEAN, updOk \in Oks(allowFault) :
       \E a \in {Execute(emails, first, getOk, sendOk, updOk, Now)},
          b \in {Execute(emails, second, getOk, sendOk, updOk, Now)} :
          /\ a.sends = 0 => ~sendOk  \* the answer of a sender nobody asks is moot
          /\ twin' = [first |-> first, second |-> second, a |-> a, b |-> b]
          /\ emails' = a.store
          /\ faults' = IF a.dbErr THEN faults + 1 ELSE faults
    /\ delivered' = delivered + 1
    /\ UNCHANGED <<queue, publisher, sweepPc, batch, lastFlow, last, failRun,
                   requeues, worker, sweepRun, ent, proc, invoked>>

(* the shutdown signal: the context main made, and handed to
   startEmailConsumer, is cancelled *)
Cancel ==
    /\ proc.ctx = "live"
    /\ proc' = [proc EXCEPT !.ctx = "cancelled"]
    /\ UNCHANGED <<emails, queue, publisher, sweepPc, batch, lastFlow, last,
                   failRun, delivered, requeues, worker, faults, sweepRun, ent, twin, invoked>>

(* the consumer loop sees the cancelled context in its select and returns *)
ConsumerSeesDone ==
    /\ proc.ctx = "cancelled"
    /\ ConsumerStops

Next ==
    \/ SendWelcome(TRUE)
    \/ Consume(TRUE)
    \/ HandleEmailMessage(TRUE)
    \/ SweepFetch(TRUE)
    \/ SweepStep(TRUE)

Spec == Init /\ [][Next]_vars

(* the store stays available and the sweep keeps ticking *)
NextAvailable ==
    \/ SendWelcome(FALSE)
    \/ Consume(FALSE)
    \/ HandleEmailMessage(FALSE)
    \/ SweepFetch(FALSE)
    \/ SweepStep(FALSE)

LiveSpec ==
    /\ Init
    /\ [][NextAvailable]_vars
    /\ WF_vars(SweepFetch(FALSE))
    /\ WF_vars(SweepStep(FALSE))

(* the pipeline fed by sign-ups: AuthService.SignUp and SignUpUseCase.Execute
   create the records and publish, the consumer and the sweep process them *)
NextSignUp ==
    \/ SignUp(TRUE)
    \/ SignUpWithEmail(TRUE)
    \/ Consume(TRUE)
    \/ SweepFetch(TRUE)
    \/ SweepStep(TRUE)

SignUpSpec == Init /\ [][NextSignUp]_vars

(* the queue read by any of the repository's consumers, the sweep left out *)
NextQueue ==
    \/ SendWelcome(TRUE)
    \/ PublishToEmailQueue
    \/ Consume(TRUE)
    \/ ConsumerProcessMessages(TRUE)
    \/ ConsumeVariant(TRUE)

QueueSpec == Init /\ [][NextQueue]_vars

(* the consumer and the sweep at work on the same records: a delivery is
   loaded, and sent and stored in a later step, the sweep running between *)
NextRace ==
    \/ SendWelcome(TRUE)
    \/ HandlerLoads(TRUE)
    \/ FinishDelivery(TRUE)
    \/ SweepFetch(TRUE)
    \/ SweepStep(TRUE)

RaceSpec == Init /\ [][NextRace]_vars

(* calls of ProcessPendingEmails, one after the other, on a store of emails *)
NextBatch ==
    \/ ProcessPendingEmailsCall(TRUE)
    \/ ProcessPendingEmailsIteration(TRUE)

BatchSpec == InitBatch /\ [][NextBatch]_vars

(* the goroutines of startEmailConsumer when the context is cancelled: the
   select of the consumer loop takes either of its ready cases, the sweep
   loop sleeps and calls ProcessPendingEmails *)
NextShutdown ==
    \/ PublishToEmailQueue
    \/ Cancel
    \/ ConsumerSeesDone
    \/ Consume(TRUE)
    \/ SweepFetch(TRUE)
    \/ SweepStep(TRUE)

InitShutdown ==
    /\ \E n \in 0..MaxEmails : emails = StoredAfter(n, n)
    /\ InitOther
    /\ ent = NoEntity
    /\ proc = Started

ShutdownSpec == InitShutdown /\ [][NextShutdown]_vars

(* the domain entity and the repository in the hands of one caller *)
NextDomain ==
    \/ CallMarkAsFailed
    \/ CallCreate(TRUE)
    \/ CallGetByID
    \/ CallUpdate(TRUE)

DomainSpec == InitDomain /\ [][NextDomain]_vars

(* Execute called with the envelopes a delivery may hold *)
NextEnvelope == ProcessMessageTwice(TRUE)

EnvelopeSpec == InitShutdown /\ [][NextEnvelope]_vars

(* the consumer loops over a queue that holds any body *)
NextDisposition ==
    \/ PublishToEmailQueue
    \/ PublishMalformed
    \/ Consume(TRUE)
    \/ ConsumerProcessMessages(TRUE)

DispositionSpec == InitShutdown /\ [][NextDisposition]_vars

(* consumer deliveries and sweep batches over stored emails, the store
   being available *)
NextRetry ==
    \/ Redelivery
    \/ SweepFetch(FALSE)
    \/ SweepIteration

RetrySpec == InitShutdown /\ [][NextRetry]_vars

(* the process from its start: the HTTP side stores welcome emails whatever
   main found, the goroutines run once started, the store stays available *)
NextMain ==
    \/ Startup
    \/ ConsumerStops
    \/ SendWelcome(FALSE)
    \/ Consume(FALSE)
    \/ HandleEmailMessage(FALSE)
    \/ SweepFetch(FALSE)
    \/ SweepStep(FALSE)

(* every goroutine that was started keeps being scheduled *)
MainSpec ==
    /\ InitMain
    /\ [][NextMain]_vars
    /\ WF_vars(Startup)
    /\ WF_vars(SweepFetch(FALSE))
    /\ WF_vars(SweepStep(FALSE))

TypeOK ==
    /\ DOMAIN emails \subseteq 1..MaxUuid
    /\ sweepPc \in {"sleep", "loop"}
    /\ delivered \in 0..(MaxDeliveries + MaxRedeliveries)
    /\ worker.src \in {"idle", "queue", "external"}
    /\ worker.kind \in {"none", "connection", "consumer", "variant"}
    /\ requeues \in 0..(MaxRequeues + 1)
    /\ faults \in 0..MaxFaults
    /\ proc.rabbitConn \in {"unset", "nil", "conn"}
    /\ proc.consumer \in {"none", "running", "stopped"}
    /\ proc.sweep \in {"none", "running"}
    /\ proc.ctx \in {"live", "cancelled"}
    /\ ent.marks \in 0..MaxMarks
    /\ \A id \in DOMAIN invoked : invoked[id] \in Nat
    /\ ent.updates \in 0..MaxUpdates

----------------------------------------------------------------------------
(* Properties *)

Terminal(status) == status \in {StatusSent, StatusFailed}

(* the latest Execute call was made, and the store answered every request *)
Called == last.via # "none" /\ last.storeOk

(* C1: for a record that was fresh (pending, attempts 0, max_attempts 3) at
   its first Execute call and whose sender fails every time, the record
   stored after the 1st call has attempts 1 and status pending; the record
   stored after the 3rd call has attempts 3 and status failed, and the 3rd
   call returns the permanently-failed error *)
C1_ScenarioB ==
    \A id \in DOMAIN emails :
        (Called /\ last.id = id /\ last.pre.MaxAttempts = DefaultMaxAttempts) =>
            /\ failRun[id] = 1 =>
                    last.post.Attempts = 1 /\ last.post.Status = StatusPending
            /\ failRun[id] = 3 =>
                    /\ last.post.Attempts = 3
                    /\ last.post.Status = StatusFailed
                    /\ last.err = ErrPermanentlyFailed

(* C2: an Execute call on a retryable record whose send fails stores
   attempts one higher than before and the failure reason in error_msg; when
   the new attempts is below max_attempts the record stays pending and the
   call returns nil *)
C2_FailedSendCountsOnce ==
    (Called /\ last.pre.Status = StatusPending
            /\ last.pre.Attempts < last.pre.MaxAttempts /\ last.send = "fail") =>
        /\ last.post.Attempts = last.pre.Attempts + 1
        /\ last.post.ErrorMsg = ErrSendFailed
        /\ last.post.Attempts < last.post.MaxAttempts =>
                last.post.Status = StatusPending /\ last.err = ""

(* C3: an Execute call on a record whose stored status is sent does not
   invoke the sender, writes nothing to the store and returns nil *)
C3_SentIsSkipped ==
    (Called /\ last.pre.Status = StatusSent) =>
        /\ last.sends = 0
        /\ last.writes = 0
        /\ ~last.changed
        /\ last.err = ""

(* C4: no step of the pipeline changes status, attempts, error_msg or
   sent_at of a record whose stored status is sent or failed *)
C4_TerminalIsFrozen ==
    [][\A id \in DOMAIN emails :
          Terminal(emails[id].Status) => Snap(emails', id) = Snap(emails, id)]_vars

(* C5: every stored record has attempts <= max_attempts *)
C5_AttemptsBounded ==
    \A id \in DOMAIN emails : emails[id].Attempts <= emails[id].MaxAttempts

(* C6: the message enqueued by a welcome-email flow carries the id of the
   Email record the flow persisted, so GetByID with the message's EmailID
   finds that record *)
C6_MessageNamesRecord ==
    lastFlow.msgID # UnknownID =>
        /\ lastFlow.msgID = lastFlow.emailID
        /\ GetByID(emails, lastFlow.msgID, TRUE).err = ""

(* C7: with the store available and the sweep ticking, every record stored
   with status pending eventually has status sent or failed, whether or not
   a message was enqueued for it *)
C7_PendingIsSettled ==
    \A id \in 1..MaxEmails :
        (id \in DOMAIN emails /\ emails[id].Status = StatusPending)
            ~> (id \in DOMAIN emails /\ Terminal(emails[id].Status))

(* the sweep settled a record for which no message was ever enqueued *)
C7_Witness ==
    /\ last.via = "sweep"
    /\ last.pre.Status = StatusPending
    /\ Terminal(last.post.Status)
    /\ lastFlow.emailID = last.id
    /\ lastFlow.msgID = UnknownID

(* C8: an Execute call on a fresh pending record (attempts 0) whose send
   succeeds returns nil and leaves the record with status sent, sent_at set
   and attempts 0 *)
C8_ScenarioA ==
    (Called /\ last.pre.Status = StatusPending /\ last.pre.Attempts = 0
            /\ last.send = "ok") =>
        /\ last.err = ""
        /\ last.post.Status = StatusSent
        /\ last.post.SentAt # 0
        /\ last.post.Attempts = 0

(* C9: an Execute call for an EmailID without a record returns the
   repository's not-found error, writes nothing to the store and does not
   invoke the sender *)
C9_UnknownIdIsRejected ==
    (Called /\ last.pre = NoSnap) =>
        /\ last.err = ErrNotFound
        /\ last.sends = 0
        /\ last.writes = 0
        /\ ~last.changed
        /\ last.post = NoSnap

(* the consumer handled a message whose EmailID has no record *)
C9_Witness ==
    /\ Called
    /\ last.via = "consumer"
    /\ last.pre = NoSnap
    /\ last.id \notin DOMAIN emails
    /\ last.err = ErrNotFound

(* C10: an Execute call on a record that is not sent and for which CanRetry
   is false returns the cannot-be-retried error, does not invoke the sender
   and writes nothing to the store *)
C10_ExhaustedIsRejected ==
    (Called /\ last.pre # NoSnap /\ last.pre.Status # StatusSent
            /\ ~CanRetry(last.pre)) =>
        /\ last.err = ErrCannotRetry
        /\ last.sends = 0
        /\ last.writes = 0
        /\ ~last.changed

(* a call on a failed record was turned down *)
C10_Witness ==
    /\ Called
    /\ last.pre.Status = StatusFailed
    /\ last.pre.Attempts >= last.pre.MaxAttempts
    /\ last.err = ErrCannotRetry

(* C11: every stored record with status pending has sent_at = nil, also
   when the consumer and the sweep process the same pending record with
   their loads, sends and updates interleaved *)
C11_PendingHasNoSentAt ==
    \A id \in DOMAIN emails :
        emails[id].Status = StatusPending => ~emails[id].SentAt.Valid

(* C12: every stored record with status sent has sent_at set, and CanRetry is
   false for it whatever its attempts *)
C12_SentHasSentAt ==
    \A id \in DOMAIN emails :
        emails[id].Status = StatusSent =>
            /\ emails[id].SentAt.Valid
            /\ sqlcEmailToDomain(emails[id]).SentAt # 0
            /\ ~CanRetry(sqlcEmailToDomain(emails[id]))

(* a record is sent with attempts still below max_attempts *)
C12_Witness ==
    \E id \in DOMAIN emails :
        /\ emails[id].Status = StatusSent
        /\ emails[id].Attempts < emails[id].MaxAttempts
        /\ emails[id].SentAt.Valid

(* the latest welcome-email flow stored its record and enqueued no message
   for it: the publish failed or there was no publisher to call *)
NotPublished == lastFlow.emailID # UnknownID /\ lastFlow.msgID = UnknownID

(* C13: a sign-up whose welcome message could not be published still returns
   the created user and the token *)
C13_PublishFailureKeepsSignUp ==
    (lastFlow.via \in {"service", "signup"} /\ NotPublished /\ lastFlow.err # "") =>
        lastFlow.signup = "ok"

(* AuthService.SignUp returned the user although the publish failed *)
C13_Witness ==
    /\ lastFlow.via = "service"
    /\ NotPublished
    /\ lastFlow.err # ""
    /\ lastFlow.signup = "ok"

(* a record as NewWelcomeEmail and Create leave it *)
FreshSnap ==
    [Status |-> StatusPending, Attempts |-> 0, MaxAttempts |-> DefaultMaxAttempts,
     ErrorMsg |-> "", SentAt |-> 0]

(* C14: status, attempts, error_msg and sent_at of a record change only in
   steps of the consumer or of the sweep, and a welcome-email flow whose
   publish failed leaves the record it stored exactly as created (pending,
   attempts 0, no error_msg, no sent_at) *)
C14_OnlyPipelineMutates ==
    [][/\ \A id \in DOMAIN emails :
            Snap(emails', id) # Snap(emails, id) => lastFlow' = lastFlow
       /\ (lastFlow' # lastFlow /\ NotPublished') => lastFlow'.post = FreshSnap]_vars

(* C14 as amended: status, attempts, error_msg and sent_at of a stored record
   change only in steps of the consumer or of the sweep, except that
   SendWelcomeEmailUseCase.Execute, when its publish fails, marks the record
   it has just stored: attempts 1 and error_msg the publish error, status
   pending, sent_at nil (the record stays as created when that update
   fails); a failed publish in SignUpUseCase.Execute leaves the record
   exactly as created *)
C14_OnlyPipelineOrFailedPublishMutates ==
    [][/\ \A id \in DOMAIN emails :
            Snap(emails', id) # Snap(emails, id) => lastFlow' = lastFlow
       /\ (lastFlow' # lastFlow /\ NotPublished') =>
            lastFlow'.post =
                IF lastFlow'.via = "signup" \/ ~lastFlow'.storeOk THEN FreshSnap
                ELSE [FreshSnap EXCEPT !.Attempts = 1, !.ErrorMsg = lastFlow'.err]]_vars

(* a failed publish in AuthService.SignUp's welcome-email flow marked the
   record, and the consumer or the sweep later changed a record *)
C14_Witness ==
    /\ lastFlow.via = "service"
    /\ NotPublished
    /\ lastFlow.storeOk
    /\ lastFlow.post.Attempts = 1
    /\ lastFlow.post.ErrorMsg # ""
    /\ last.changed

(* C15: when the publisher returns an error or none is configured,
   SendWelcomeEmailUseCase.Execute returns an error and the record it stored
   stays in the store, with status pending and, the store answering, with
   error_msg the publish error *)
C15_FailedPublishKeepsRecord ==
    (lastFlow.via = "usecase" /\ NotPublished) =>
        /\ lastFlow.err # ""
        /\ lastFlow.emailID \in DOMAIN emails
        /\ lastFlow.post.Status = StatusPending
        /\ lastFlow.storeOk => lastFlow.post.ErrorMsg = lastFlow.err

(* the use case ran without a publisher and the record is still stored *)
C15_Witness ==
    /\ lastFlow.via = "usecase"
    /\ NotPublished
    /\ publisher = "nil"
    /\ lastFlow.storeOk
    /\ lastFlow.post.ErrorMsg = "email publisher not configured"
    /\ lastFlow.emailID \in DOMAIN emails


(* a consumer of any kind answered its latest delivery *)
Delivered == last.via = "consumer"

(* C16: when the handler returns nil for a delivery (the record was sent, or
   the send failed and the record stays retryable: a soft failure, or the
   record was sent already), the consumer acks: the delivery taken from the
   queue is removed from it and is not requeued *)
C16_SuccessIsAcked ==
    [][(last' # last /\ last'.via = "consumer" /\ last'.err = "") =>
            /\ last'.disp = "ack"
            /\ queue # <<>>
            /\ queue' = Tail(queue)
            /\ requeues' = 0]_vars

C16_Witness ==
    /\ Delivered /\ last.err = "" /\ last.disp = "ack"
    /\ last.send = "fail" /\ last.post.Status = StatusPending
    /\ last.kind = "consumer"

(* C17: when the store is unavailable (the read or the update fails), the
   consumer nacks the delivery with requeue *)
C17_StoreFailureIsRequeued ==
    (Delivered /\ ~last.storeOk) => last.disp = "requeue"

(* C18: a delivery is requeued at most 3 times and is discarded after that *)
C18_RedeliveryIsBounded == requeues <= maxRetries

(* C19: a delivery whose EmailID has no record is discarded (acked or
   rejected without requeue) and is never requeued *)
C19_UnknownIdIsDiscarded ==
    (Delivered /\ last.storeOk /\ last.id \notin DOMAIN emails)
        => last.disp \in {"ack", "reject"}

(* C20: once main is past the broker setup the sweep goroutine runs and goes
   on running, whether the connection was established or not and whether
   the consumer loop still runs or has stopped *)
C20_SweepRunsRegardless ==
    (proc.rabbitConn # "unset") ~> [](proc.sweep = "running")

(* a call of ProcessPendingEmails was followed and its query was answered *)
Fetched == sweepRun.ret # "none" /\ sweepRun.fetchOk

(* the ids of the messages still to be handled in the batch *)
Rest == [i \in 1..Len(batch) |-> batch[i].EmailID]

(* C21: ProcessPendingEmails hands every email of the batch it fetched to
   Execute, also after Execute failed for some of them, and returns nil
   whatever the number of failures *)
C21_BatchSurvivesFailures ==
    Fetched =>
        /\ sweepRun.handed \o Rest = sweepRun.fetched
        /\ sweepPc = "loop" => sweepRun.ret = "running"
        /\ sweepPc = "sleep" =>
                sweepRun.ret = "" /\ sweepRun.handed = sweepRun.fetched

(* a batch of two or more came to its end with a failure counted before the
   last email, which was processed all the same *)
C21_Witness ==
    /\ Fetched /\ sweepPc = "sleep" /\ sweepRun.ret = ""
    /\ Len(sweepRun.handed) >= 2
    /\ sweepRun.handed = sweepRun.fetched
    /\ sweepRun.fails >= 1
    /\ last.err = ""

(* the emails handed to Execute were pending at the fetch, each is handed
   once, and each is the oldest of the pending ones not handed before it *)
OldestPendingFirst ==
    \A i \in 1..Len(sweepRun.handed) :
        /\ sweepRun.handed[i] \in sweepRun.pending
        /\ \A j \in 1..Len(sweepRun.handed) :
                j # i => sweepRun.handed[j] # sweepRun.handed[i]
        /\ \A u \in sweepRun.pending :
                (\A j \in 1..(i - 1) : sweepRun.handed[j] # u) =>
                    emails[sweepRun.handed[i]].CreatedAt <= emails[u].CreatedAt

(* the call is over, the pending emails were no more than n, the sender
   succeeded for each and the store answered: all are sent, none is pending *)
AllSentWithin(n) ==
    (/\ sweepPc = "sleep"
     /\ Cardinality(sweepRun.pending) <= n
     /\ sweepRun.sendFails = 0
     /\ sweepRun.storeOk) =>
        /\ \A u \in sweepRun.pending : emails[u].Status = StatusSent
        /\ \A u \in DOMAIN emails : emails[u].Status # StatusPending

(* C22 as stated: ProcessPendingEmails(limit) hands at most limit emails to
   Execute, all pending when fetched, oldest-created first, each once; with
   no more than limit pending emails and a sender that succeeds for all,
   all become sent and none stays pending *)
C22_BatchWithinLimit ==
    Fetched =>
        /\ Len(sweepRun.handed) <= sweepRun.limit
        /\ OldestPendingFirst
        /\ AllSentWithin(sweepRun.limit)

(* the limit of the query: the repository's default when batchSize is not
   positive *)
EffectiveLimit == IF sweepRun.limit <= 0 THEN DefaultLimit ELSE sweepRun.limit

(* C22, amended: ProcessPendingEmails(batchSize) hands to Execute at most
   batchSize emails when batchSize is positive and at most 10, the default
   of the repository, when it is not; they were pending when fetched, are
   taken oldest-created first, each once; with no more pending emails than
   that limit and a sender that succeeds for all, all become sent and none
   stays pending *)
C22_BatchWithinEffectiveLimit ==
    Fetched =>
        /\ Len(sweepRun.handed) <= EffectiveLimit
        /\ OldestPendingFirst
        /\ AllSentWithin(EffectiveLimit)

(* a call with a limit below the number of pending emails handed exactly
   that many, the oldest ones, while the store also held emails that were
   not pending *)
C22_Witness ==
    /\ Fetched /\ sweepPc = "sleep"
    /\ sweepRun.limit >= 1
    /\ Len(sweepRun.handed) = sweepRun.limit
    /\ Cardinality(sweepRun.pending) > sweepRun.limit
    /\ \E u \in DOMAIN emails : u \notin sweepRun.pending /\ emails[u].Status = StatusSent

(* C23: once the context is cancelled the consumer loop takes no further
   delivery from the broker *)
C23_NoPullAfterShutdown ==
    [][proc.ctx = "cancelled" =>
          /\ ~(last' # last /\ last'.via = "consumer")
          /\ Len(queue') >= Len(queue)]_vars

(* C24: once the context is cancelled the sweep loop starts no further call
   of ProcessPendingEmails *)
C24_NoSweepAfterShutdown ==
    [][proc.ctx = "cancelled" => ~SweepFetch(TRUE)]_vars

(* an address without an "@" that has something on both sides *)
Malformed(addr) ==
    ~\E i \in 2..(Len(addr) - 1) : addr[i] = "@"

(* a welcome-email request the use case has to reject *)
InvalidRequest(req) ==
    req.UserID = "" \/ req.UserName = "" \/ Malformed(req.UserEmail)

(* C25: SendWelcomeEmailUseCase.Execute answers a request with an empty
   user id, an empty user name or an empty or malformed address with a
   validation error; the call creates no Email record and does not call the
   publisher *)
C25_InvalidRequestStoresNothing ==
    [][(/\ lastFlow' # lastFlow
        /\ lastFlow'.via = "usecase"
        /\ InvalidRequest(lastFlow'.req)) =>
            /\ lastFlow'.err \in {"user ID is required", "user name is required",
                                  "user email is required", "invalid email format"}
            /\ emails' = emails
            /\ queue' = queue
            /\ lastFlow'.emailID = UnknownID
            /\ lastFlow'.msgID = UnknownID]_vars

(* a request whose address has no "@" was rejected, the store being empty *)
C25_Witness ==
    /\ lastFlow.via = "usecase"
    /\ lastFlow.req.UserID # "" /\ lastFlow.req.UserName # ""
    /\ lastFlow.req.UserEmail # <<>> /\ Malformed(lastFlow.req.UserEmail)
    /\ lastFlow.err = "invalid email format"
    /\ emails = <<>> /\ queue = <<>>

(* a caller holds an entity that started with attempts 0 *)
Held == ent.email # NilEmail

(* C26: whatever the number of MarkAsFailed calls made on an email that
   started with attempts 0, its attempts do not exceed its max_attempts *)
C26_AttemptsWithinMax ==
    Held => ent.email.Attempts <= ent.email.MaxAttempts

(* C27: on a fresh pending email, after max_attempts - 1 calls of
   MarkAsFailed the status is pending and CanRetry is true; after exactly
   max_attempts calls the status is failed, attempts is max_attempts and
   CanRetry is false *)
C27_FailsAtMaxAttempts ==
    Held =>
        /\ ent.marks = ent.email.MaxAttempts - 1 =>
                ent.email.Status = StatusPending /\ CanRetry(ent.email)
        /\ ent.marks = ent.email.MaxAttempts =>
                /\ ent.email.Status = StatusFailed
                /\ ent.email.Attempts = ent.email.MaxAttempts
                /\ ~CanRetry(ent.email)

(* the third call on an email of max_attempts 3 was made *)
C27_Witness ==
    /\ Held
    /\ ent.email.MaxAttempts = DefaultMaxAttempts
    /\ ent.marks = DefaultMaxAttempts
    /\ ent.email.Status = StatusFailed

(* C28: the stored sent_at of an email is set once, in the change from
   pending to sent, and once it is set no later operation of the pipeline
   changes it *)
C28_SentAtWrittenOnce ==
    [][\A u \in DOMAIN emails :
          /\ u \in DOMAIN emails'
          /\ emails[u].SentAt.Valid => emails'[u].SentAt = emails[u].SentAt
          /\ emails'[u].SentAt # emails[u].SentAt =>
                emails[u].Status = StatusPending /\ emails'[u].Status = StatusSent]_vars

(* the caller wrote an entity with Update *)
Updated == ent.written # NilEmail

(* the caller reloaded the entity it created *)
Reloaded == ent.loaded # NilEmail

(* C29: an Email made by NewWelcomeEmail, persisted with Create and reloaded
   with GetByID under the id it has after Create, has the same to, subject,
   type, status and attempts *)
C29_CreateGetByIDRoundTrip ==
    (Reloaded /\ ~Updated) =>
        /\ ent.loaded.ID = ent.created.ID
        /\ ent.loaded.To = ent.created.To
        /\ ent.loaded.Subject = ent.created.Subject
        /\ ent.loaded.Type = ent.created.Type
        /\ ent.loaded.Status = ent.created.Status
        /\ ent.loaded.Attempts = ent.created.Attempts

(* a fresh entity, stored under the id the database gave it, was reloaded *)
C29_Witness ==
    /\ Reloaded
    /\ ~Updated
    /\ ent.marks = 0
    /\ ent.loaded.ID \in DOMAIN emails
    /\ ent.loaded.To = GoodAddress
    /\ ent.loaded.Subject = WelcomeSubject
    /\ ent.loaded.Type = EmailTypeWelcome
    /\ ent.loaded.Status = StatusPending
    /\ ent.loaded.Attempts = 0

(* C30: after Update(email) the stored status, attempts, error_msg and
   sent_at are the values of the given entity (an empty error_msg and a nil
   sent_at being stored as NULL) *)
C30_UpdateOverwrites ==
    Updated =>
        /\ ent.written.ID \in DOMAIN emails
        /\ emails[ent.written.ID].Status = ent.written.Status
        /\ emails[ent.written.ID].Attempts = ent.written.Attempts
        /\ emails[ent.written.ID].ErrorMsg =
                (IF ent.written.ErrorMsg # "" THEN NotNull(ent.written.ErrorMsg)
                 ELSE NullString)
        /\ emails[ent.written.ID].SentAt =
                (IF ent.written.SentAt # 0 THEN NotNull(ent.written.SentAt)
                 ELSE NullTime)

(* two calls of Execute were made from one store state *)
Twice == twin # NoTwin

(* C31: from the same store state, two messages with the same EmailID
   produce the same outcome of Execute, whatever their Type and Data:
   the same sender invocations, the same store and the same return value *)
C31_OutcomeIgnoresEnvelope ==
    Twice =>
        /\ twin.first.EmailID = twin.second.EmailID
        /\ twin.a.sends = twin.b.sends
        /\ twin.a.store = twin.b.store
        /\ twin.a.writes = twin.b.writes
        /\ twin.a.err = twin.b.err

(* two envelopes of a stored email that differ in type and data were
   processed, and the email was sent *)
C31_Witness ==
    /\ Twice
    /\ twin.first.EmailID \in DOMAIN emails
    /\ twin.first.Type # twin.second.Type
    /\ twin.first.Data # twin.second.Data
    /\ twin.a.sends = 1
    /\ twin.a.err = ""
    /\ emails[twin.first.EmailID].Status = StatusSent

(* C32: a welcome-email flow enqueues a message only after it stored its
   Email record: every step that adds a message to the queue also adds the
   flow's record to the store, so a flow whose Create failed enqueues nothing *)
C32_StoredBeforePublished ==
    [][Len(queue') > Len(queue) =>
          /\ lastFlow'.msgID # UnknownID
          /\ lastFlow'.emailID \in DOMAIN emails' \ DOMAIN emails
          /\ emails'[lastFlow'.emailID].Status = StatusPending]_vars

(* after a flow whose store operation failed, a sign-up flow stored its
   record and enqueued its message *)
C32_Witness ==
    /\ faults >= 1
    /\ lastFlow.via = "signup"
    /\ lastFlow.msgID # UnknownID
    /\ lastFlow.emailID \in DOMAIN emails
    /\ Len(queue) = 1

(* C33: when the Update fails inside Execute, after a failed send as after
   a successful one, Execute returns an error and the stored record is as it
   was before the call *)
C33_UpdateFailureIsReported ==
    [][(last' # last /\ last'.sends = 1 /\ ~last'.storeOk) =>
          /\ last'.err # ""
          /\ last'.writes = 0
          /\ emails' = emails
          /\ last'.post = last'.pre]_vars

(* the sender accepted the email and the Update after it failed *)
C33_Witness ==
    /\ last.sends = 1
    /\ last.send = "ok"
    /\ ~last.storeOk
    /\ last.err = ErrUpdateAfterSend
    /\ last.post.Status = StatusPending
    /\ last.post.SentAt = 0

(* C34: across consumer calls and sweep batches, the store being available,
   the sender is invoked for an email at most max_attempts times *)
C34_SendsWithinMaxAttempts ==
    \A u \in DOMAIN emails : invoked[u] <= emails[u].MaxAttempts

(* the consumer loop takes the delivery at the head of the queue in this step *)
Taken == queue # <<>> /\ (queue' = Tail(queue) \/ requeues' = requeues + 1)

(* C35: each delivery the consumer loop takes gets exactly one answer, an
   ack or a reject, before the next one is taken; a body that cannot be
   parsed is rejected without requeue and the handler is not called for it *)
C35_OneDispositionPerDelivery ==
    [][Taken =>
          /\ last'.via = "consumer"
          /\ last'.disp \in {"ack", "reject", "requeue"}
          /\ last'.disp = "requeue" => queue' = queue /\ requeues' = requeues + 1
          /\ last'.disp # "requeue" => queue' = Tail(queue) /\ requeues' = 0
          /\ Head(queue) = MalformedBody =>
                /\ last'.disp = "reject"
                /\ last'.err = ErrUnmarshal
                /\ last'.sends = 0
                /\ emails' = emails]_vars

(* Consumer.handleMessage rejected a body it could not parse, and the queue
   goes on with a well-formed delivery *)
C35_Witness ==
    /\ last.via = "consumer"
    /\ last.kind = "consumer"
    /\ last.err = ErrUnmarshal
    /\ last.disp = "reject"
    /\ Len(queue) = 1
    /\ Head(queue) # MalformedBody

====
